---------------------------- MODULE Spec2Model ----------------------------
(***************************************************************************)
(* Model of diskmaker/create.py: calcSemis (the disk sampler), drawEIOoM   *)
(* (the orbital-element drawer) and createBigin (the big.in serializer).   *)
(*                                                                         *)
(* Python floats are IEEE-754 binary64.  The index arithmetic of calcSemis *)
(* truncates floats to integers, so its results depend on the rounding of  *)
(* every operation.  The model therefore carries floats as binary64        *)
(* values (sign, 53-bit significand, exponent) and rounds every operation  *)
(* to nearest, ties to even, as the hardware does.  Significands do not    *)
(* fit the model checker's integers, so they are kept as little-endian     *)
(* sequences of 15-bit limbs.                                              *)
(***************************************************************************)
EXTENDS Integers, Sequences, FiniteSets, TLC

(***************************************************************************)
(* Natural numbers of arbitrary size: little-endian limb sequences, no     *)
(* leading zero limb, <<>> is zero.                                        *)
(***************************************************************************)
LimbBits == 15

Base == 2^LimbBits

Pow2(k) == 2^k

RECURSIVE BigNorm(_)
BigNorm(a) ==
    IF a = <<>> THEN a
    ELSE IF a[Len(a)] = 0 THEN BigNorm(SubSeq(a, 1, Len(a) - 1))
    ELSE a

RECURSIVE BigOfInt(_)
BigOfInt(n) == IF n = 0 THEN <<>> ELSE <<n % Base>> \o BigOfInt(n \div Base)

RECURSIVE BigToInt(_)
BigToInt(a) == IF a = <<>> THEN 0 ELSE a[1] + Base * BigToInt(Tail(a))

RECURSIVE BigAddC(_, _, _)
BigAddC(a, b, c) ==
    IF a = <<>> /\ b = <<>> THEN (IF c = 0 THEN <<>> ELSE <<c>>)
    ELSE LET x == (IF a = <<>> THEN 0 ELSE a[1])
                  + (IF b = <<>> THEN 0 ELSE b[1]) + c
         IN  <<x % Base>> \o BigAddC(IF a = <<>> THEN a ELSE Tail(a),
                                     IF b = <<>> THEN b ELSE Tail(b),
                                     x \div Base)

BigAdd(a, b) == BigAddC(a, b, 0)

RECURSIVE BigSubB(_, _, _)
BigSubB(a, b, br) ==
    IF a = <<>> THEN <<>>
    ELSE LET x == a[1] - (IF b = <<>> THEN 0 ELSE b[1]) - br
         IN  <<IF x < 0 THEN x + Base ELSE x>>
             \o BigSubB(Tail(a), IF b = <<>> THEN b ELSE Tail(b),
                        IF x < 0 THEN 1 ELSE 0)

\* a - b for a >= b
BigSub(a, b) == BigNorm(BigSubB(a, b, 0))

RECURSIVE BigCmpAt(_, _, _)
BigCmpAt(a, b, i) ==
    IF i = 0 THEN 0
    ELSE IF a[i] # b[i] THEN (IF a[i] < b[i] THEN -1 ELSE 1)
    ELSE BigCmpAt(a, b, i - 1)

\* -1, 0, 1 as a < b, a = b, a > b
BigCmp(a, b) ==
    IF Len(a) # Len(b) THEN (IF Len(a) < Len(b) THEN -1 ELSE 1)
    ELSE BigCmpAt(a, b, Len(a))

RECURSIVE BigMulSmallC(_, _, _)
BigMulSmallC(a, d, c) ==
    IF a = <<>> THEN (IF c = 0 THEN <<>> ELSE <<c>>)
    ELSE LET x == a[1] * d + c
         IN  <<x % Base>> \o BigMulSmallC(Tail(a), d, x \div Base)

\* a * d for a limb d
BigMulSmall(a, d) == IF d = 0 THEN <<>> ELSE BigMulSmallC(a, d, 0)

BigShiftLimbs(a, k) == IF a = <<>> THEN a ELSE [i \in 1..k |-> 0] \o a

RECURSIVE BigMul(_, _)
BigMul(a, b) ==
    IF b = <<>> THEN <<>>
    ELSE BigAdd(BigMulSmall(a, b[1]), BigShiftLimbs(BigMul(a, Tail(b)), 1))

\* a * 2^k
BigShl(a, k) ==
    BigShiftLimbs(BigMulSmall(a, Pow2(k % LimbBits)), k \div LimbBits)

\* floor(a / 2^k)
BigShr(a, k) ==
    LET w == k \div LimbBits
        d == Pow2(k % LimbBits)
        n == Len(a)
    IN  IF w >= n THEN <<>>
        ELSE LET b == SubSeq(a, w + 1, n)
                 m == n - w
             IN  BigNorm([i \in 1..m |->
                    (b[i] \div d)
                    + (IF i < m THEN (b[i + 1] % d) * (Base \div d) ELSE 0)])

RECURSIVE LimbLen(_)
LimbLen(x) == IF x = 0 THEN 0 ELSE 1 + LimbLen(x \div 2)

BigBitLen(a) ==
    IF a = <<>> THEN 0 ELSE LimbBits * (Len(a) - 1) + LimbLen(a[Len(a)])

BigIsOdd(a) == a # <<>> /\ a[1] % 2 = 1

(***************************************************************************)
(* binary64: the value (-1)^s * m * 2^e with m = 0 or 2^52 <= m < 2^53.    *)
(* The magnitudes of this program stay far from the subnormal and the      *)
(* overflow range, which are not modelled.                                 *)
(***************************************************************************)
MantBits == 53

FZero == [s |-> 0, m |-> <<>>, e |-> 0]

FIsZero(a) == a.m = <<>>

\* the one element of a singleton: One({F(x) : x \in {e}}) is F(e) with e
\* evaluated once, however often F uses its operand
One(S) == CHOOSE x \in S : TRUE

RoundNearestEven(s, m, e, sticky) ==
    IF m = <<>> THEN FZero
    ELSE LET len == BigBitLen(m)
         IN  IF len <= MantBits
             THEN [s |-> s, m |-> BigShl(m, MantBits - len),
                   e |-> e - (MantBits - len)]
             ELSE LET sh == len - MantBits
                      q == BigShr(m, sh)
                      rem == BigSub(m, BigShl(q, sh))
                      c == BigCmp(rem, BigShl(<<1>>, sh - 1))
                      up == c > 0 \/ (c = 0 /\ (sticky \/ BigIsOdd(q)))
                      q2 == IF up THEN BigAdd(q, <<1>>) ELSE q
                  IN  IF BigBitLen(q2) > MantBits
                      THEN [s |-> s, m |-> BigShr(q2, 1), e |-> e + sh + 1]
                      ELSE [s |-> s, m |-> q2, e |-> e + sh]

\* m * 2^e (plus a nonzero amount below one unit of m when sticky), rounded
\* to nearest, ties to even
FRound(s, m, e, sticky) ==
    One({RoundNearestEven(s, x, e, sticky) : x \in {m}})

FNeg(a) == IF FIsZero(a) THEN a ELSE [a EXCEPT !.s = 1 - a.s]

Sum(a, b) ==
    IF FIsZero(a) THEN b
    ELSE IF FIsZero(b) THEN a
    ELSE LET e == IF a.e < b.e THEN a.e ELSE b.e
             ma == BigShl(a.m, a.e - e)
             mb == BigShl(b.m, b.e - e)
             c == BigCmp(ma, mb)
         IN  FRound(IF c >= 0 THEN a.s ELSE b.s,
                    IF a.s = b.s THEN BigAdd(ma, mb)
                    ELSE IF c >= 0 THEN BigSub(ma, mb) ELSE BigSub(mb, ma),
                    e, FALSE)

FAdd(a, b) == One({Sum(x, y) : x \in {a}, y \in {b}})

FSub(a, b) == One({Sum(x, FNeg(y)) : x \in {a}, y \in {b}})

Product(a, b) ==
    IF FIsZero(a) \/ FIsZero(b) THEN FZero
    ELSE FRound((a.s + b.s) % 2, BigMul(a.m, b.m), a.e + b.e, FALSE)

FMul(a, b) == One({Product(x, y) : x \in {a}, y \in {b}})

\* the largest q <= est with q * d <= r
RECURSIVE Fit(_, _, _)
Fit(est, r, d) ==
    IF BigCmp(BigMulSmall(d, est), r) > 0 THEN Fit(est - 1, r, d) ELSE est

\* floor(r / d) for r < d * Base and a d whose top limb is full: the
\* quotient of the leading limbs is at most 2 above it
QuotLimb(r, d) ==
    LET n == Len(d)
        lead == (IF Len(r) > n THEN r[n + 1] * Base ELSE 0)
                + (IF Len(r) >= n THEN r[n] ELSE 0)
        est == lead \div d[n]
    IN  Fit(IF est >= Base THEN Base - 1 ELSE est, r, d)

\* k more quotient limbs of r / d after the quotient q
RECURSIVE DivLimbs(_, _, _, _)
DivLimbs(q, r, d, k) ==
    IF k = 0 THEN <<q, r>>
    ELSE LET r2 == BigShiftLimbs(r, 1)
             ql == QuotLimb(r2, d)
         IN  DivLimbs(IF q = <<>> /\ ql = 0 THEN <<>> ELSE <<ql>> \o q,
                      BigSub(r2, BigMulSmall(d, ql)), d, k - 1)

QuotLimbs == 4

\* a / b for b # 0: QuotLimbs limbs of quotient below the leading bit,
\* and whether anything is left
Quotient(a, b) ==
    IF FIsZero(a) THEN FZero
    ELSE LET full == (LimbBits - (MantBits % LimbBits)) % LimbBits
             n == BigShl(a.m, full)
             d == BigShl(b.m, full)
             ge == BigCmp(n, d) >= 0
         IN  One({FRound((a.s + b.s) % 2, qr[1],
                         a.e - b.e - (QuotLimbs * LimbBits), qr[2] # <<>>) :
                    qr \in {DivLimbs(IF ge THEN <<1>> ELSE <<>>,
                                     IF ge THEN BigSub(n, d) ELSE n, d,
                                     QuotLimbs)}})

FDiv(a, b) == One({Quotient(x, y) : x \in {a}, y \in {b}})

\* float(n) of an integer n
FOfInt(n) ==
    IF n = 0 THEN FZero
    ELSE FRound(IF n < 0 THEN 1 ELSE 0, BigOfInt(IF n < 0 THEN -n ELSE n),
                0, FALSE)

Truncated(a) ==
    IF FIsZero(a) THEN 0
    ELSE LET mag == IF a.e >= 0 THEN BigShl(a.m, a.e) ELSE BigShr(a.m, -a.e)
         IN  IF a.s = 1 THEN -BigToInt(mag) ELSE BigToInt(mag)

\* int(a): truncation toward zero
FTrunc(a) == One({Truncated(x) : x \in {a}})

\* the magnitudes of two nonzero floats compared
MagCmp(a, b) ==
    IF a.e # b.e THEN (IF a.e < b.e THEN -1 ELSE 1) ELSE BigCmp(a.m, b.m)

Compared(a, b) ==
    IF FIsZero(a) THEN (IF FIsZero(b) THEN 0 ELSE IF b.s = 1 THEN 1 ELSE -1)
    ELSE IF FIsZero(b) \/ a.s # b.s THEN (IF a.s = 1 THEN -1 ELSE 1)
    ELSE IF a.s = 0 THEN MagCmp(a, b) ELSE MagCmp(b, a)

\* -1, 0, 1 as a < b, a = b, a > b
FCmp(a, b) == One({Compared(x, y) : x \in {a}, y \in {b}})

FLt(a, b) == FCmp(a, b) < 0

FGe(a, b) == FCmp(a, b) >= 0

\* the float a decimal literal n/d denotes: the binary64 nearest to n/d
Dec(n, d) == FDiv(FOfInt(n), FOfInt(d))


(***************************************************************************)
(* Inputs.  Masses are decimal literals with two places, radial bounds     *)
(* decimal literals with one place, alpha a multiple of one half.  The     *)
(* state keeps the numerators of the literals as the call was written      *)
(* (literal) and the floats the literals denote, which are what the        *)
(* function receives (args).                                               *)
(***************************************************************************)
MaxSmallMass == 3

MaxLargeMass == 9

MaxNLarge == 5

MaxResidual == 1

MaxNSmall == 3

MaxSize == 2

MaxOverrideLen == 1

VARIABLES
    entry,       \* the function called: calcSemis, createBigin or drawEIOoM
    literal,     \* its arguments as written in the call
    args,        \* its arguments
    pc,          \* the position in the code
    nLarge,      \* calcSemis: nLarge
    unidist,     \* calcSemis: len(unidist), the number of grid slots
    pos,         \* calcSemis: pos
    i,           \* calcSemis: the loop variable
    maskLarge,   \* calcSemis: the slots where maskLarge is True
    maskSmall,   \* calcSemis: the slots where maskSmall is True
    log,         \* the levels at which logger was called with a finding
    raised,      \* the exception that ended the call, or "none"
    ret,         \* calcSemis: the returned arrays (createBigin's locals)
    elements,    \* drawEIOoM: the returned arrays
    outstr       \* createBigin: the body names of the returned text

vars == <<entry, literal, args, pc, nLarge, unidist, pos, i, maskLarge,
          maskSmall, log, raised, ret, elements, outstr>>

NoRet == [finalSemi |-> <<>>, finalMass |-> <<>>, bodyType |-> <<>>]

NoElements == [ecc |-> <<>>, inc |-> <<>>, littleOm |-> <<>>,
               bigOm |-> <<>>, meananom |-> <<>>]

Hundredths(n) == Dec(n, 100)

Tenths(n) == Dec(n, 10)

\* the floats of a call written with the numerators a
Floats(a) ==
    [totalMass |-> Hundredths(a.totalMass),
     smallMass |-> Hundredths(a.smallMass),
     largeMass |-> Hundredths(a.largeMass),
     nSmall |-> a.nSmall,
     inner |-> Tenths(a.inner),
     outer |-> Tenths(a.outer),
     alpha |-> Dec(a.alpha, 2)]

totalMass == args.totalMass

smallMass == args.smallMass

largeMass == args.largeMass

nSmall == args.nSmall

inner == args.inner

outer == args.outer

alpha == args.alpha

(***************************************************************************)
(* calcSemis                                                               *)
(***************************************************************************)
\* (totalMass - (nSmall * smallMass))
Budget == FSub(totalMass, FMul(FOfInt(nSmall), smallMass))

NLarge == FTrunc(FDiv(Budget, largeMass))

missingMass(n) == FSub(Budget, FMul(largeMass, FOfInt(n)))

MissingMassWarning(n) == FGe(missingMass(n), FMul(totalMass, Dec(5, 100)))

\* lines 46-58: nLarge, and the missing mass logged as a warning or as info
ComputeNLarge ==
    /\ pc = "calcSemis"
    /\ nLarge' = NLarge
    /\ log' = IF MissingMassWarning(nLarge') THEN log \cup {"warning"}
              ELSE log
    /\ pc' = "linspace"
    /\ UNCHANGED <<entry, literal, args, unidist, pos, i, maskLarge,
                   maskSmall, raised, ret, elements, outstr>>

massMultiplier == FDiv(largeMass, smallMass)

power == FMul(alpha, Dec(1, 2))

span == FSub(outer, inner)

\* the float count handed to np.linspace: numpy truncates it with int()
LinspaceNum ==
    FTrunc(FAdd(FOfInt(nSmall),
                FDiv(FMul(largeMass, FOfInt(nLarge)), smallMass)))

\* lines 61-78.  A negative count makes linspace raise ValueError, or, in
\* numpy 1.8, return the empty array: either may happen.  pos divides two
\* Python ints and raises ZeroDivisionError when nLarge is 0.
BuildGrid ==
    /\ pc = "linspace"
    /\ \/ /\ LinspaceNum < 0
          /\ raised' = "ValueError"
          /\ pc' = "done"
          /\ UNCHANGED <<unidist, pos, maskLarge, maskSmall>>
       \/ LET len == IF LinspaceNum < 0 THEN 0 ELSE LinspaceNum
          IN  /\ unidist' = len
              /\ maskSmall' = 0..(len - 1)
              /\ maskLarge' = {}
              /\ IF nLarge = 0
                 THEN /\ raised' = "ZeroDivisionError"
                      /\ pc' = "done"
                      /\ UNCHANGED pos
                 ELSE /\ pos' = FDiv(FOfInt(len), FOfInt(nLarge))
                      /\ pc' = "loop"
                      /\ UNCHANGED raised
    /\ i' = 0
    /\ UNCHANGED <<entry, literal, args, nLarge, log, ret, elements, outstr>>

\* (i*pos)+(0.5*pos)
Centre(k) == FAdd(FMul(FOfInt(k), pos), FMul(Dec(1, 2), pos))

HalfWidth == FDiv(massMultiplier, FOfInt(2))

LargeIndex(k) == FTrunc(Centre(k))

WindowStart(k) == FTrunc(FSub(Centre(k), HalfWidth))

WindowStop(k) == FTrunc(FAdd(Centre(k), HalfWidth))

\* a slice bound as numpy reads it on an array of n entries
SliceBound(b, n) ==
    IF b < 0 THEN (IF b + n < 0 THEN 0 ELSE b + n)
    ELSE IF b > n THEN n ELSE b

\* the slots of a[start:stop]
Window(k) ==
    SliceBound(WindowStart(k), unidist)
        ..(SliceBound(WindowStop(k), unidist) - 1)

\* lines 79-82: one pass of the masking loop.  An index outside the array
\* raises IndexError; a negative one counts from the end.
MaskStep ==
    /\ pc = "loop"
    /\ i < nLarge
    /\ IF LargeIndex(i) >= unidist \/ LargeIndex(i) < -unidist
       THEN /\ raised' = "IndexError"
            /\ pc' = "done"
            /\ UNCHANGED <<i, maskLarge, maskSmall>>
       ELSE /\ maskLarge' = maskLarge \cup
                    {IF LargeIndex(i) < 0 THEN LargeIndex(i) + unidist
                     ELSE LargeIndex(i)}
            /\ maskSmall' = maskSmall \ Window(i)
            /\ i' = i + 1
            /\ UNCHANGED <<raised, pc>>
    /\ UNCHANGED <<entry, literal, args, nLarge, unidist, pos, log, ret,
                   elements, outstr>>

\* the slots of a mask between lo and hi, ascending: spacings[mask]
RECURSIVE Masked(_, _, _)
Masked(mask, lo, hi) ==
    IF lo > hi THEN <<>>
    ELSE IF lo = hi THEN (IF lo \in mask THEN <<lo>> ELSE <<>>)
    ELSE LET mid == (lo + hi) \div 2
         IN  Masked(mask, lo, mid) \o Masked(mask, mid + 1, hi)

\* -1, 0, 1: the sign of a float
FSign(a) == IF FIsZero(a) THEN 0 ELSE IF a.s = 1 THEN -1 ELSE 1

(***************************************************************************)
(* spacings[k] = (k/(N-1))**power * span + inner.  pow is not computed bit *)
(* for bit: a semimajor axis is carried as its grid slot k, and two of     *)
(* them compare as the real function orders them, which for power >= 0     *)
(* (the inputs of the model) is the order of the slots, kept by a positive *)
(* span, reversed by a negative one and lost when span or power is 0.      *)
(***************************************************************************)
SpacingOrder == FSign(span) * FSign(power)

\* spacings[j] < spacings[k]
SpacingLt(j, k) ==
    \/ SpacingOrder > 0 /\ j < k
    \/ SpacingOrder < 0 /\ j > k

\* the positions of a as they stand: no sorting
UnsortedOrder(a) == [j \in 1..Len(a) |-> j]

\* np.argsort(a): the positions of a in ascending order of spacing,
\* positions of equal spacing in their order in a
ArgSort(a) ==
    SortSeq([j \in 1..Len(a) |-> j], LAMBDA p, q: SpacingLt(a[p], a[q]))

\* np.where(finalMass > smallMass, 'EM', 'PL')
BodyType(finalMass) ==
    LET heavier == [m \in {finalMass[j] : j \in 1..Len(finalMass)} |->
                        FLt(smallMass, m)]
    IN  [j \in 1..Len(finalMass) |->
            IF heavier[finalMass[j]] THEN "EM" ELSE "PL"]

\* a[idx]
Take(a, idx) == [j \in 1..Len(idx) |-> a[idx[j]]]

\* lines 84-89 and 114: the arrays calcSemis returns
Sample ==
    LET large == Masked(maskLarge, 0, unidist - 1)
        small == Masked(maskSmall, 0, unidist - 1)
        finalSemi == large \o small
        onesLarge == FMul(FOfInt(1), largeMass)
        onesSmall == FMul(FOfInt(1), smallMass)
        finalMass == [j \in 1..Len(large) |-> onesLarge]
                     \o [j \in 1..Len(small) |-> onesSmall]
        bodyType == BodyType(finalMass)
        idx == ArgSort(finalSemi)
    IN  [finalSemi |-> Take(finalSemi, idx),
         finalMass |-> Take(finalMass, idx),
         bodyType |-> Take(bodyType, idx)]

\* lines 84-114: the loop is over; sort and return (to createBigin, line
\* 206, when it made the call)
Assemble ==
    /\ pc = "loop"
    /\ i >= nLarge
    /\ ret' = Sample
    /\ pc' = IF entry = "createBigin" THEN "nbodies" ELSE "done"
    /\ UNCHANGED <<entry, literal, args, nLarge, unidist, pos, i, maskLarge,
                   maskSmall, log, raised, elements, outstr>>

(***************************************************************************)
(* drawEIOoM                                                               *)
(***************************************************************************)
ElementNames == {"ecc", "inc", "littleOm", "bigOm", "meananom"}

\* np.random.uniform(low, high, size): size draws, each carried as the
\* range it was drawn from (in hundredths), not as a value
Uniform(low, high, size) == [j \in 1..size |-> [low |-> low, high |-> high]]

\* try: kwargs[name]  except KeyError: np.random.uniform(0, high, size)
Element(kwargs, name, high, size) ==
    IF name \in DOMAIN kwargs THEN kwargs[name] ELSE Uniform(0, high, size)

\* lines 147-173
drawEIOoM(size, kwargs) ==
    [ecc |-> Element(kwargs, "ecc", 1, size),
     inc |-> Element(kwargs, "inc", 50, size),
     littleOm |-> Element(kwargs, "littleOm", 36000, size),
     bigOm |-> Element(kwargs, "bigOm", 36000, size),
     meananom |-> Element(kwargs, "meananom", 36000, size)]

\* a call of drawEIOoM(size, **kwargs)
Draw ==
    /\ pc = "drawEIOoM"
    /\ elements' = drawEIOoM(args.size, args.kwargs)
    /\ pc' = "done"
    /\ UNCHANGED <<entry, literal, args, nLarge, unidist, pos, i, maskLarge,
                   maskSmall, log, raised, ret, outstr>>

(***************************************************************************)
(* createBigin                                                             *)
(***************************************************************************)
NameLimit == 9999

NameWidth == 4

RECURSIVE Digits(_)
Digits(n) == IF n < 10 THEN <<n>> ELSE Digits(n \div 10) \o <<n % 10>>

\* '{:04}'.format(n): the decimal digits of n, zero-padded to four
Format04(n) ==
    LET d == Digits(n)
    IN  IF Len(d) >= NameWidth THEN d
        ELSE [j \in 1..(NameWidth - Len(d)) |-> 0] \o d

\* lines 206-209: the count is checked, the error only logged, and the
\* elements are drawn
CountBodies ==
    /\ pc = "nbodies"
    /\ log' = IF Len(ret.finalSemi) > NameLimit THEN log \cup {"error"}
              ELSE log
    /\ elements' = drawEIOoM(Len(ret.finalSemi), <<>>)
    /\ pc' = "write"
    /\ UNCHANGED <<entry, literal, args, nLarge, unidist, pos, i, maskLarge,
                   maskSmall, raised, ret, outstr>>

\* lines 211-219: one record per body; of a record the model keeps the
\* body name, the type tag and the digits of the index
WriteBodies ==
    /\ pc = "write"
    /\ outstr' = [j \in 1..Len(ret.finalSemi) |->
                    [tag |-> ret.bodyType[j], index |-> Format04(j - 1)]]
    /\ pc' = "done"
    /\ UNCHANGED <<entry, literal, args, nLarge, unidist, pos, i, maskLarge,
                   maskSmall, log, raised, ret, elements>>

(***************************************************************************)
(* The calls made                                                          *)
(***************************************************************************)
\* inner, outer, alpha of examples/example.py
ExampleGeometry == [inner |-> 2, outer |-> 40, alpha |-> 3]

Geometries ==
    {[inner |-> a, outer |-> b, alpha |-> c] :
        a \in {0, 2, 40}, b \in {2, 40}, c \in {0, 3}}

\* totalMass is the mass of nSmall small and k large bodies and a residual
MassConfigs ==
    {m \in {[totalMass |-> (n * s) + (k * l) + d, smallMass |-> s,
             largeMass |-> l, nSmall |-> n] :
                s \in 1..MaxSmallMass, l \in 2..MaxLargeMass,
                k \in (-1)..MaxNLarge, d \in 0..MaxResidual,
                n \in (-1)..MaxNSmall} :
        m.totalMass > 0 /\ m.largeMass > m.smallMass}

WithGeometry(m, g) ==
    [totalMass |-> m.totalMass, smallMass |-> m.smallMass,
     largeMass |-> m.largeMass, nSmall |-> m.nSmall,
     inner |-> g.inner, outer |-> g.outer, alpha |-> g.alpha]

\* the call of examples/example.py and of create.py run as a script
ExampleArgs ==
    WithGeometry([totalMass |-> 500, smallMass |-> 1, largeMass |-> 10,
                  nSmall |-> 260], ExampleGeometry)

\* the call of test_basics.py
TestArgs ==
    WithGeometry([totalMass |-> 500, smallMass |-> 1, largeMass |-> 10,
                  nSmall |-> 200], ExampleGeometry)

SamplerArgs ==
    {WithGeometry(m, ExampleGeometry) : m \in MassConfigs}
    \cup {WithGeometry([totalMass |-> 8, smallMass |-> 2, largeMass |-> 3,
                        nSmall |-> 1], g) : g \in Geometries}
    \cup {ExampleArgs, TestArgs}

OverrideArrays == {[j \in 1..n |-> j] : n \in 0..MaxOverrideLen}

DrawArgs ==
    {[size |-> n, kwargs |-> kw] :
        n \in 0..MaxSize,
        kw \in UNION {[D -> OverrideArrays] : D \in SUBSET ElementNames}}

Start(e, a) ==
    /\ entry = e
    /\ literal = a
    /\ args = IF e = "drawEIOoM" THEN a ELSE Floats(a)
    /\ pc = IF e = "drawEIOoM" THEN "drawEIOoM" ELSE "calcSemis"
    /\ nLarge = 0
    /\ unidist = 0
    /\ pos = FZero
    /\ i = 0
    /\ maskLarge = {}
    /\ maskSmall = {}
    /\ log = {}
    /\ raised = "none"
    /\ ret = NoRet
    /\ elements = NoElements
    /\ outstr = <<>>

Calls ==
    {<<"calcSemis", a>> : a \in SamplerArgs}
    \cup {<<"createBigin", ExampleArgs>>}
    \cup {<<"drawEIOoM", a>> : a \in DrawArgs}

Init == \E c \in Calls : Start(c[1], c[2])

Next ==
    \/ ComputeNLarge
    \/ BuildGrid
    \/ MaskStep
    \/ Assemble
    \/ CountBodies
    \/ WriteBodies
    \/ Draw

Spec == Init /\ [][Next]_vars

\* disks of NameLimit - 1, NameLimit and NameLimit + 1 small bodies and one
\* large body: masses 1.0 and 2.0
LargeDisks ==
    {WithGeometry([totalMass |-> (n * 100) + 200, smallMass |-> 100,
                   largeMass |-> 200, nSmall |-> n], ExampleGeometry) :
        n \in (NameLimit - 1)..(NameLimit + 1)}

BiginCalls ==
    {<<"createBigin", a>> : a \in LargeDisks \cup {ExampleArgs, TestArgs}}
    \cup {<<"drawEIOoM", a>> : a \in DrawArgs}

InitBigin == \E c \in BiginCalls : Start(c[1], c[2])

\* the serializer on disks around the naming limit
SpecBigin == InitBigin /\ [][Next]_vars

(***************************************************************************)
(* What the specification says of the program, stated on the model.        *)
(* Quantities of the specification are read over the decimal literals of   *)
(* the call (literal), those of the code over its floats.                  *)
(***************************************************************************)
SamplerCall == entry \in {"calcSemis", "createBigin"}

\* calcSemis has ended, by a return or by an exception
SamplerEnded == SamplerCall /\ pc \notin {"calcSemis", "linspace", "loop"}

SamplerReturned == SamplerEnded /\ raised = "none"

\* largeMass > smallMass > 0, nSmall >= 0, outer > inner > 0
ValidConfiguration ==
    /\ literal.largeMass > literal.smallMass
    /\ literal.smallMass > 0
    /\ literal.nSmall >= 0
    /\ literal.outer > literal.inner
    /\ literal.inner > 0

\* totalMass - nSmall*smallMass, in hundredths
LiteralBudget == literal.totalMass - (literal.nSmall * literal.smallMass)

LargeCount ==
    Cardinality({j \in 1..Len(ret.finalMass) : ret.finalMass[j] = largeMass})

SmallCount ==
    Cardinality({j \in 1..Len(ret.finalMass) : ret.finalMass[j] = smallMass})

\* sum(masses), in hundredths
MassSum ==
    (LargeCount * literal.largeMass) + (SmallCount * literal.smallMass)

Distance(a, b) == IF a < b THEN b - a ELSE a - b

\* |sum(masses) - totalMass| / totalMass < 0.05
WithinFivePercent ==
    100 * Distance(MassSum, literal.totalMass) < 5 * literal.totalMass

\* the returned semimajor axes never decrease
Ascending ==
    \A j \in 1..(Len(ret.finalSemi) - 1) :
        ~SpacingLt(ret.finalSemi[j + 1], ret.finalSemi[j])

\* spacings[maskLarge] followed by spacings[maskSmall]
Unsorted ==
    Masked(maskLarge, 0, unidist - 1) \o Masked(maskSmall, 0, unidist - 1)

\* C1: for every valid configuration (with a non-negative budget for large
\* bodies) whose missing mass is below the warning threshold (no warning
\* was logged, and the literals' missing mass is below 5% of totalMass),
\* the masses returned by calcSemis sum to within 5% of totalMass.
MassConservation ==
    (/\ SamplerReturned
     /\ ValidConfiguration
     /\ LiteralBudget >= 0
     /\ "warning" \notin log
     /\ 100 * (LiteralBudget - (nLarge * literal.largeMass))
            < 5 * literal.totalMass)
        => WithinFivePercent

\* C2: for every valid configuration (with a non-negative budget for large
\* bodies), every returned mass is smallMass or largeMass and the number of
\* entries equal to largeMass is floor((totalMass - nSmall*smallMass) /
\* largeMass).
TwoMassValues ==
    (SamplerReturned /\ ValidConfiguration /\ LiteralBudget >= 0)
        => /\ \A j \in 1..Len(ret.finalMass) :
                ret.finalMass[j] \in {smallMass, largeMass}
           /\ LargeCount = LiteralBudget \div literal.largeMass

\* C3: what calcSemis returns is the population, the large slots with
\* largeMass and EM and the small slots with smallMass and PL, each body
\* once, in an order in which the semimajor axes never decrease; mass and
\* label stay with their radius.
SortedPopulation ==
    SamplerReturned
        => /\ Len(ret.finalMass) = Len(ret.finalSemi)
           /\ Len(ret.bodyType) = Len(ret.finalSemi)
           /\ Len(ret.finalSemi)
                = Cardinality(maskLarge) + Cardinality(maskSmall)
           /\ {<<ret.finalSemi[j], ret.finalMass[j], ret.bodyType[j]>> :
                    j \in 1..Len(ret.finalSemi)}
                = {<<k, largeMass, "EM">> : k \in maskLarge}
                    \cup {<<k, smallMass, "PL">> : k \in maskSmall}
           /\ Ascending

\* a population of both kinds was returned, and sorting reordered it
SortedPopulationReached ==
    /\ SamplerReturned
    /\ maskLarge # {}
    /\ maskSmall # {}
    /\ ret.finalSemi # Unsorted
    /\ \E j \in 1..(Len(ret.finalSemi) - 1) :
            SpacingLt(ret.finalSemi[j], ret.finalSemi[j + 1])

\* C4: calcSemis ends with a ConfigurationError and returns nothing when
\* the computed nLarge is negative, when nSmall is negative, and when the
\* radial bounds are non-positive or inverted.
RejectsConfiguration ==
    (/\ SamplerEnded
     /\ \/ nLarge < 0
        \/ literal.nSmall < 0
        \/ literal.inner <= 0
        \/ literal.outer <= literal.inner)
        => raised = "ConfigurationError" /\ ret = NoRet

\* C5: createBigin ends with a NamingOverflowError and returns no text when
\* the population has more than 9999 bodies, and no body name it returns
\* has an index wider than 4 digits.
NamingOverflow ==
    (entry = "createBigin" /\ pc = "done")
        => /\ Len(ret.finalSemi) > NameLimit
                => raised = "NamingOverflowError" /\ outstr = <<>>
           /\ \A j \in 1..Len(outstr) : Len(outstr[j].index) <= NameWidth

\* C6: drawEIOoM(count, overrides) returns five sequences of length count,
\* an override of length count verbatim, and ends with a
\* ConfigurationError when an override has another length.
DrawnLengths ==
    (entry = "drawEIOoM" /\ pc = "done")
        => IF \A name \in DOMAIN args.kwargs :
                    Len(args.kwargs[name]) = args.size
           THEN /\ raised = "none"
                /\ \A name \in ElementNames :
                        /\ Len(elements[name]) = args.size
                        /\ name \in DOMAIN args.kwargs
                                => elements[name] = args.kwargs[name]
           ELSE raised = "ConfigurationError"

\* C7: for totalMass=5.0, smallMass=0.01, largeMass=0.1, nSmall=260,
\* inner=0.2, outer=4.0, alpha=1.5 calcSemis computes nLarge = 24 and
\* returns 284 bodies, 24 large and 260 small, all on the grid between
\* inner and outer, in ascending order, their masses within 5% of 5.0.
ExampleScenario ==
    (SamplerEnded /\ literal = ExampleArgs)
        => /\ raised = "none"
           /\ nLarge = 24
           /\ Len(ret.finalSemi) = 284
           /\ LargeCount = 24
           /\ SmallCount = 260
           /\ \A j \in 1..Len(ret.finalSemi) :
                ret.finalSemi[j] \in 0..(unidist - 1)
           /\ Ascending
           /\ WithinFivePercent

\* C8: when the computed nLarge is 0 (0 <= totalMass - nSmall*smallMass <
\* largeMass) calcSemis returns, without an error, nSmall bodies, all of
\* mass smallMass and label PL.
NoLargeBodies ==
    (/\ SamplerEnded
     /\ ValidConfiguration
     /\ nLarge = 0
     /\ LiteralBudget >= 0
     /\ LiteralBudget < literal.largeMass)
        => /\ raised = "none"
           /\ Len(ret.finalSemi) = literal.nSmall
           /\ \A j \in 1..Len(ret.finalSemi) :
                ret.finalMass[j] = smallMass /\ ret.bodyType[j] = "PL"

\* largeMass/smallMass is an integer, as literals and as floats
IntegerMultiplier ==
    /\ literal.largeMass % literal.smallMass = 0
    /\ FOfInt(FTrunc(massMultiplier)) = massMultiplier

\* C9: for a valid configuration with nLarge >= 1 and an integer
\* massMultiplier, every block of the masking loop removes a window of
\* exactly massMultiplier slots, the windows lie inside [0, N) and do not
\* overlap, and after the loop nSmall small bodies are left and nSmall +
\* nLarge bodies are returned.
ExactWindows ==
    (/\ SamplerCall
     /\ pc \notin {"calcSemis", "linspace"}
     /\ raised = "none"
     /\ ValidConfiguration
     /\ nLarge >= 1
     /\ IntegerMultiplier)
        => /\ \A k \in 0..(i - 1) :
                /\ WindowStop(k) - WindowStart(k) = FTrunc(massMultiplier)
                /\ WindowStart(k) >= 0
                /\ WindowStop(k) <= unidist
           /\ \A j, k \in 0..(i - 1) :
                j < k => WindowStop(j) <= WindowStart(k)
           /\ pc # "loop"
                => /\ Cardinality(maskSmall) = literal.nSmall
                   /\ Len(ret.finalSemi) = literal.nSmall + nLarge

\* C10: for a valid configuration, after every iteration of the masking
\* loop no slot is marked both large and small, the slot marked large in a
\* block lies inside the window the block removed, and the slots marked
\* large are pairwise distinct and within [0, N).
DisjointMasks ==
    (/\ SamplerCall
     /\ pc \notin {"calcSemis", "linspace"}
     /\ raised = "none"
     /\ ValidConfiguration)
        => /\ maskLarge \cap maskSmall = {}
           /\ \A k \in 0..(i - 1) :
                LargeIndex(k) \in WindowStart(k)..(WindowStop(k) - 1)
           /\ Cardinality(maskLarge) = i
           /\ maskLarge \subseteq 0..(unidist - 1)

=============================================================================
